---------------------------- MODULE Spec2Model ----------------------------
(***************************************************************************)
(* Volunteer scheduling: the capacity balancer (split_volunteers), the     *)
(* binding-set builder (BindingGenerator) and the multi-phase assignment   *)
(* engine (VolunteerScheduler).                                            *)
(*                                                                         *)
(* Three specifications share the module:                                  *)
(*   SpecBalancer  - split_volunteers applied to bounded inputs            *)
(*   SpecBinder    - merge of overlapping bindings, direct-assignment      *)
(*                   attachment and conflict check                         *)
(*   Spec          - group loading and the seven phases of                 *)
(*                   execute_scheduling                                    *)
(* Each one keeps the variables of the other two at their idle values.     *)
(***************************************************************************)
EXTENDS Integers, Sequences, FiniteSets, TLC

VARIABLES
    \* ---- split_volunteers ----
    position_requirements,   \* argument: headcount per category
    target_groups,           \* argument: total number of groups wanted
    split_result,            \* the returned list of lists
    bal_pc,                  \* "idle" | "call" | "returned"
    \* ---- BindingGenerator ----
    all_bindings,            \* couple + family + group bindings, in that order
    bg_direct_assignments,   \* student id -> target group (None = no entry)
    merged_bindings,         \* result of _merge_overlapping_bindings
    final_bindings,          \* result of _apply_direct_assignments
    conflicts,               \* result of _check_assignment_conflicts
    binding_counter,         \* BindingGenerator.binding_counter
    bg_pc,                   \* "idle" | "merge" | "apply" | "check" | "done"
    \* ---- VolunteerScheduler ----
    group_info,              \* rows of the group table (input of _load_groups)
    volunteer_table,         \* the Volunteer built from each row of the volunteer tables
    volunteer_keys,          \* insertion order of the dict self.volunteers
    volunteers,              \* self.volunteers: student id -> Volunteer
    group_keys,              \* insertion order of the dict self.groups
    groups,                  \* self.groups: group id -> Group
    binding_sets,            \* self.binding_sets
    direct_assignments,      \* self.direct_assignments, as its items() list
    placed_student_ids,      \* self.placed_student_ids
    failed_assignments,      \* groups left without a specialist, per pass
    scheduling_log,          \* outcome logged for each binding set
    scheduling_result,       \* the AssignmentResult execute_scheduling returned, if any
    pc                       \* position in load_data / execute_scheduling

balVars == <<position_requirements, target_groups, split_result, bal_pc>>
bgVars  == <<all_bindings, bg_direct_assignments, merged_bindings,
             final_bindings, conflicts, binding_counter, bg_pc>>
engVars == <<group_info, volunteer_table, volunteer_keys, volunteers, group_keys, groups,
             binding_sets, direct_assignments, placed_student_ids,
             failed_assignments, scheduling_log, scheduling_result, pc>>
vars    == <<balVars, bgVars, engVars>>

\* Python's None, for group ids, leaders and scores (all real values are > 0).
None == 0

-----------------------------------------------------------------------------
(* Generic helpers: Python list idioms *)

RECURSIVE SumSeq(_)
SumSeq(s) == IF s = <<>> THEN 0 ELSE Head(s) + SumSeq(Tail(s))

RECURSIVE Flatten(_)
Flatten(ss) == IF ss = <<>> THEN <<>> ELSE Head(ss) \o Flatten(Tail(ss))

Repeat(x, n) == [i \in 1..n |-> x]

Range(s) == {s[i] : i \in 1..Len(s)}

\* [x for x in s if x in keep]
RECURSIVE FilterSeq(_, _)
FilterSeq(s, keep) ==
    IF s = <<>> THEN <<>>
    ELSE IF Head(s) \in keep THEN <<Head(s)>> \o FilterSeq(Tail(s), keep)
    ELSE FilterSeq(Tail(s), keep)

\* list.sort(key=..., reverse=True): stable, equal keys keep their order.
RECURSIVE InsertDesc(_, _, _)
InsertDesc(x, sorted, key) ==
    IF sorted = <<>> THEN <<x>>
    ELSE IF key[Head(sorted)] >= key[x]
         THEN <<Head(sorted)>> \o InsertDesc(x, Tail(sorted), key)
         ELSE <<x>> \o sorted

RECURSIVE SortDescAcc(_, _, _)
SortDescAcc(s, acc, key) ==
    IF s = <<>> THEN acc
    ELSE SortDescAcc(Tail(s), InsertDesc(Head(s), acc, key), key)

StableSortDesc(s, key) == SortDescAcc(s, <<>>, key)

\* sorted(..., key=...): stable, ascending.
RECURSIVE InsertAsc(_, _, _)
InsertAsc(x, sorted, key) ==
    IF sorted = <<>> THEN <<x>>
    ELSE IF key[Head(sorted)] <= key[x]
         THEN <<Head(sorted)>> \o InsertAsc(x, Tail(sorted), key)
         ELSE <<x>> \o sorted

RECURSIVE SortAscAcc(_, _, _)
SortAscAcc(s, acc, key) ==
    IF s = <<>> THEN acc
    ELSE SortAscAcc(Tail(s), InsertAsc(Head(s), acc, key), key)

StableSortAsc(s, key) == SortAscAcc(s, <<>>, key)

-----------------------------------------------------------------------------
(* Bounds of the balancer inputs *)

MaxCategories   == 3    \* length of position_requirements
MaxHeadcount    == 6    \* largest headcount of a category
MaxTargetGroups == 5    \* largest target_groups

\* min_independent_threshold = 0.5, as the fraction ThresholdNum / ThresholdDen
ThresholdNum == 1
ThresholdDen == 2

-----------------------------------------------------------------------------
(* split_volunteers                                                        *)
(* The source computes with doubles; here the same quantities are exact    *)
(* fractions.  Within the bounds above (and one above them) the double     *)
(* results of the source coincide with the exact ones.                     *)

\* Python 3 round(num / den) for num >= 0, den > 0: round half to even.
PyRound(num, den) ==
    LET q == num \div den
        r == num % den
    IN  IF 2 * r < den THEN q
        ELSE IF 2 * r > den THEN q + 1
        ELSE IF q % 2 = 0 THEN q ELSE q + 1

Max2(a, b) == IF a >= b THEN a ELSE b

\* total_people = sum(pos for pos in position_requirements if pos > 0)
RECURSIVE TotalPeople(_)
TotalPeople(reqs) ==
    IF reqs = <<>> THEN 0
    ELSE (IF Head(reqs) > 0 THEN Head(reqs) ELSE 0) + TotalPeople(Tail(reqs))

\* requirement <= ideal_group_size * min_independent_threshold, with
\* ideal_group_size = total_people / target_groups
IsIndependent(requirement, total_people, target) ==
    requirement * target * ThresholdDen <= total_people * ThresholdNum

\* independent_indices
IndependentIndices(reqs, target) ==
    {i \in 1..Len(reqs) :
        /\ reqs[i] # 0
        /\ IsIndependent(reqs[i], TotalPeople(reqs), target)}

\* remaining_positions, as the ascending list of original indices
RemainingIndices(reqs, target) ==
    FilterSeq([i \in 1..Len(reqs) |-> i],
              {i \in 1..Len(reqs) :
                  /\ reqs[i] # 0
                  /\ ~IsIndependent(reqs[i], TotalPeople(reqs), target)})

\* IndependentPass without the "requirement == 0" branch: a category of
\* headcount 0 passes the threshold test and becomes a group of size 0
IndependentPassNoZeroBranch(reqs, target) ==
    [i \in 1..Len(reqs) |->
        IF IsIndependent(reqs[i], TotalPeople(reqs), target)
        THEN <<reqs[i]>> ELSE <<>>]

\* result after phase 2: [] for 0 and for remaining, [requirement] for independent
IndependentPass(reqs, target) ==
    [i \in 1..Len(reqs) |->
        IF i \in IndependentIndices(reqs, target) THEN <<reqs[i]>> ELSE <<>>]

\* a base count of one group per category, whatever its headcount
BaseGroupsOneEach(requirement, remaining_people, remaining_groups) == 1

\* base_groups = max(1, round(requirement / new_ideal_size)), with
\* new_ideal_size = remaining_people / remaining_groups
BaseGroups(requirement, remaining_people, remaining_groups) ==
    Max2(1, PyRound(requirement * remaining_groups, remaining_people))

\* for j in range(adjustment): counts[sorted_indices[j % len]] += 1
RECURSIVE IncrementLoop(_, _, _, _)
IncrementLoop(counts, sorted_indices, j, adjustment) ==
    IF j >= adjustment THEN counts
    ELSE LET k == sorted_indices[(j % Len(sorted_indices)) + 1]
         IN  IncrementLoop([counts EXCEPT ![k] = @ + 1],
                           sorted_indices, j + 1, adjustment)

\* for j in range(-adjustment): if counts[...] > 1: counts[...] -= 1
RECURSIVE DecrementLoop(_, _, _, _)
DecrementLoop(counts, sorted_indices, j, n) ==
    IF j >= n THEN counts
    ELSE LET k == sorted_indices[(j % Len(sorted_indices)) + 1]
         IN  DecrementLoop(IF counts[k] > 1
                           THEN [counts EXCEPT ![k] = @ - 1]
                           ELSE counts,
                           sorted_indices, j + 1, n)

\* position_group_counts after the adjustment; rem is remaining_positions as
\* the list of requirements, positions 1..Len(rem)
AdjustCounts(rem, remaining_groups) ==
    LET remaining_people == SumSeq(rem)
        base   == [i \in 1..Len(rem) |->
                      BaseGroups(rem[i], remaining_people, remaining_groups)]
        adjustment == remaining_groups - SumSeq(base)
        idx    == [i \in 1..Len(rem) |-> i]
    IN  IF adjustment > 0
        THEN IncrementLoop(base, StableSortDesc(idx, rem), 0, adjustment)
        ELSE IF adjustment < 0
        THEN DecrementLoop(base, StableSortAsc(idx, rem), 0, -adjustment)
        ELSE base

\* a split that puts the larger groups last
SplitGroupsLargerLast(requirement, group_count) ==
    LET base_size == requirement \div group_count
        remainder == requirement % group_count
    IN  Repeat(base_size, group_count - remainder) \o
        Repeat(base_size + 1, remainder)

\* [base_size + 1] * remainder + [base_size] * (group_count - remainder)
SplitGroups(requirement, group_count) ==
    LET base_size == requirement \div group_count
        remainder == requirement % group_count
    IN  Repeat(base_size + 1, remainder) \o
        Repeat(base_size, group_count - remainder)

\* 1-based position of x in the duplicate-free list s
IndexOf(s, x) == CHOOSE i \in 1..Len(s) : s[i] = x

split_volunteers(reqs, target) ==
    IF reqs = <<>> \/ target <= 0 THEN <<>>
    ELSE IF TotalPeople(reqs) = 0 THEN <<>>
    ELSE
      LET result           == IndependentPass(reqs, target)
          remaining        == RemainingIndices(reqs, target)
          rem              == [i \in 1..Len(remaining) |-> reqs[remaining[i]]]
          allocated_groups == Cardinality(IndependentIndices(reqs, target))
          remaining_groups == target - allocated_groups
          remaining_people == SumSeq(rem)
      IN  IF remaining_groups <= 0 \/ remaining_people = 0 THEN result
          ELSE LET counts == AdjustCounts(rem, remaining_groups)
               IN  [i \in 1..Len(reqs) |->
                      IF i \in Range(remaining)
                      THEN SplitGroups(reqs[i], counts[IndexOf(remaining, i)])
                      ELSE result[i]]

-----------------------------------------------------------------------------
(* BindingGenerator: bindings, merge, direct-assignment attachment          *)

\* Bounds of the binder inputs
MaxRosterLen    == 2    \* longest roster (rows of one group file)
NumTargetGroups == 2    \* group ids a direct assignment may name: 1..NumTargetGroups

\* student ids known to the binder inputs
BgStudents == {1, 2, 3}

\* BindingSet(binding_id, binding_type); members start empty, target None.
\* binding_id f"{PREFIX}_{counter:03d}" is the pair <<PREFIX, counter>>.
BindingSet(prefix, counter, binding_type, members) ==
    [binding_id      |-> <<prefix, counter>>,
     binding_type    |-> binding_type,
     members         |-> members,
     target_group_id |-> None]

\* _generate_couple_bindings: one COUPLE binding per row, both ids appended
\* as they stand in the row.
RECURSIVE generate_couple_bindings(_, _)
generate_couple_bindings(rows, counter) ==
    IF rows = <<>> THEN <<>>
    ELSE <<BindingSet("COUPLE", counter, "couple", Head(rows))>> \o
         generate_couple_bindings(Tail(rows), counter + 1)

\* _generate_family_bindings: a resolved "same group" row gives the FAMILY
\* binding <<internal, family member>>; any other row gives a one-member
\* UNBOUND_FAMILY binding.  Bound bindings are created before unbound ones.
RECURSIVE generate_family_bound(_, _)
generate_family_bound(rows, counter) ==
    IF rows = <<>> THEN <<>>
    ELSE IF Len(Head(rows)) = 2
    THEN <<BindingSet("FAMILY", counter, "family", Head(rows))>> \o
         generate_family_bound(Tail(rows), counter + 1)
    ELSE generate_family_bound(Tail(rows), counter)

RECURSIVE generate_family_unbound(_, _)
generate_family_unbound(rows, counter) ==
    IF rows = <<>> THEN <<>>
    ELSE IF Len(Head(rows)) = 1
    THEN <<BindingSet("UNBOUND_FAMILY", counter, "unbound_family", Head(rows))>> \o
         generate_family_unbound(Tail(rows), counter + 1)
    ELSE generate_family_unbound(Tail(rows), counter)

generate_family_bindings(rows, counter) ==
    LET bound == generate_family_bound(rows, counter)
    IN  bound \o generate_family_unbound(rows, counter + Len(bound))

\* _generate_group_bindings: one GROUP binding per non-empty roster, one
\* member appended per row (no check for a repeated student id).
RECURSIVE generate_group_bindings(_, _)
generate_group_bindings(rosters, counter) ==
    IF rosters = <<>> THEN <<>>
    ELSE <<BindingSet("GROUP", counter, "group", Head(rosters))>> \o
         generate_group_bindings(Tail(rosters), counter + 1)

\* student_to_bindings[student_id], as indices into all_bindings; a binding
\* that names the student twice is listed twice in the source, which the
\* "not in related" test makes the same as once.
BindingsOfStudent(all, student_id) ==
    FilterSeq([j \in 1..Len(all) |-> j],
              {j \in 1..Len(all) : student_id \in Range(all[j].members)})

\* for other_binding in student_to_bindings[student_id]: ...
RECURSIVE ScanBindings(_, _, _, _)
ScanBindings(cands, related, to_check, processed) ==
    IF cands = <<>> THEN [related |-> related, to_check |-> to_check]
    ELSE IF Head(cands) \notin processed /\ Head(cands) \notin Range(related)
    THEN ScanBindings(Tail(cands), Append(related, Head(cands)),
                      Append(to_check, Head(cands)), processed)
    ELSE ScanBindings(Tail(cands), related, to_check, processed)

\* for member in current.members: ...
RECURSIVE ScanMembers(_, _, _, _, _)
ScanMembers(members, all, related, to_check, processed) ==
    IF members = <<>> THEN [related |-> related, to_check |-> to_check]
    ELSE LET r == ScanBindings(BindingsOfStudent(all, Head(members)),
                               related, to_check, processed)
         IN  ScanMembers(Tail(members), all, r.related, r.to_check, processed)

\* The scan of a mutant that stops at the direct neighbours: bindings found
\* are returned but never queued for their own scan.
ScanMembersNoQueue(members, all, related, to_check, processed) ==
    LET r == ScanMembers(members, all, related, to_check, processed)
    IN  [related |-> r.related, to_check |-> to_check]

\* one iteration of "while to_check": current = to_check.pop(0), then the scan
ScanCurrent(members, all, related, to_check, processed) ==
    ScanMembers(members, all, related, to_check, processed)

\* _find_related_bindings: breadth-first search over shared members
RECURSIVE FindRelatedLoop(_, _, _, _)
FindRelatedLoop(all, related, to_check, processed) ==
    IF to_check = <<>> THEN related
    ELSE LET r == ScanCurrent(all[Head(to_check)].members, all,
                              related, Tail(to_check), processed)
         IN  FindRelatedLoop(all, r.related, r.to_check, processed)

find_related_bindings(all, binding, processed) ==
    FindRelatedLoop(all, <<binding>>, <<binding>>, processed)

\* all_members of _merge_multiple_bindings: first occurrence of each id
RECURSIVE DedupMembers(_, _)
DedupMembers(members, seen) ==
    IF members = <<>> THEN <<>>
    ELSE IF Head(members) \in seen THEN DedupMembers(Tail(members), seen)
    ELSE <<Head(members)>> \o DedupMembers(Tail(members), seen \cup {Head(members)})

\* _merge_multiple_bindings, for len(bindings) > 1
merge_multiple_bindings(all, related, counter) ==
    LET binding_types == {all[related[k]].binding_type : k \in 1..Len(related)}
        concat == Flatten([k \in 1..Len(related) |-> all[related[k]].members])
    IN  [binding_id      |-> <<"MERGED", counter>>,
         binding_type    |-> IF Cardinality(binding_types) = 1
                             THEN CHOOSE t \in binding_types : TRUE
                             ELSE "mixed",
         members         |-> DedupMembers(concat, {}),
         target_group_id |-> None]

\* the loop "for binding in all_bindings" of _merge_overlapping_bindings
RECURSIVE MergeLoop(_, _, _, _, _)
MergeLoop(all, i, processed, merged, counter) ==
    IF i > Len(all) THEN [merged |-> merged, counter |-> counter]
    ELSE IF i \in processed THEN MergeLoop(all, i + 1, processed, merged, counter)
    ELSE LET related == find_related_bindings(all, i, processed)
         IN  IF Len(related) = 1
             THEN MergeLoop(all, i + 1, processed \cup {i},
                            Append(merged, all[i]), counter)
             ELSE MergeLoop(all, i + 1, processed \cup Range(related),
                            Append(merged,
                                   merge_multiple_bindings(all, related, counter)),
                            counter + 1)

merge_overlapping_bindings(all, counter) ==
    IF Len(all) <= 1 THEN [merged |-> all, counter |-> counter]
    ELSE MergeLoop(all, 1, {}, <<>>, counter)

\* assigned_groups: the targets of the members that have a direct assignment
RECURSIVE AssignedGroups(_, _)
AssignedGroups(members, direct) ==
    IF members = <<>> THEN {}
    ELSE (IF direct[Head(members)] # None THEN {direct[Head(members)]} ELSE {})
         \cup AssignedGroups(Tail(members), direct)

\* a mutant of ApplyToBinding: any directly assigned member pins the set
ApplyToBindingAnyTarget(binding, direct) ==
    LET assigned_groups == AssignedGroups(binding.members, direct)
    IN  IF assigned_groups # {}
        THEN [binding EXCEPT !.target_group_id =
                 CHOOSE t \in assigned_groups : \A u \in assigned_groups : t <= u]
        ELSE binding

\* body of the loop of _apply_direct_assignments
ApplyToBinding(binding, direct) ==
    LET assigned_groups == AssignedGroups(binding.members, direct)
    IN  IF Cardinality(assigned_groups) = 1
        THEN [binding EXCEPT !.target_group_id =
                 CHOOSE t \in assigned_groups : TRUE]
        ELSE IF Cardinality(assigned_groups) > 1
        THEN [binding EXCEPT !.target_group_id = None]
        ELSE binding

apply_direct_assignments(bindings, direct) ==
    [k \in 1..Len(bindings) |-> ApplyToBinding(bindings[k], direct)]

\* conflicting_members
RECURSIVE ConflictingMembers(_, _)
ConflictingMembers(members, direct) ==
    IF members = <<>> THEN <<>>
    ELSE (IF direct[Head(members)] # None
          THEN <<[student_id |-> Head(members),
                  assigned_group |-> direct[Head(members)]]>>
          ELSE <<>>) \o ConflictingMembers(Tail(members), direct)

RECURSIVE check_assignment_conflicts(_, _)
check_assignment_conflicts(bindings, direct) ==
    IF bindings = <<>> THEN <<>>
    ELSE LET b == Head(bindings)
             assigned_groups == AssignedGroups(b.members, direct)
         IN  (IF Cardinality(assigned_groups) > 1
              THEN <<[binding_id          |-> b.binding_id,
                      binding_type        |-> b.binding_type,
                      assigned_groups     |-> assigned_groups,
                      conflicting_members |-> ConflictingMembers(b.members, direct)]>>
              ELSE <<>>) \o check_assignment_conflicts(Tail(bindings), direct)

-----------------------------------------------------------------------------
(* VolunteerScheduler: data model, loader of the groups, the seven phases   *)

\* Volunteer as the loaders leave it: type, roles and the three scores
\* (None when the interview table has no value), not yet in a group.
Volunteer(volunteer_type, special_roles, normalized_score, lightning_score, photography_score) ==
    [volunteer_type    |-> volunteer_type,
     special_roles     |-> special_roles,
     normalized_score  |-> normalized_score,
     lightning_score   |-> lightning_score,
     photography_score |-> photography_score,
     assigned_group_id |-> None]

\* Group(group_id, position, required_count); actual_count is len(members)
Group(required_count) ==
    [required_count  |-> required_count,
     leader          |-> None,
     members         |-> <<>>,
     has_lightning   |-> FALSE,
     has_photography |-> FALSE]

get_remaining_capacity(group) ==
    Max2(0, group.required_count - Len(group.members))

has_special_role(volunteer, role) == role \in volunteer.special_roles

\* is_backup stays False: no loader of the scheduler sets it
is_eligible_for_lightning(volunteer) ==
    /\ volunteer.volunteer_type = "normal"
    /\ volunteer.lightning_score # None
    /\ volunteer.lightning_score > 0

is_eligible_for_photography(volunteer) ==
    /\ volunteer.volunteer_type = "normal"
    /\ volunteer.photography_score # None
    /\ volunteer.photography_score > 0

\* an add_member that appends the member and leaves the flags alone
GroupAddMemberKeepingFlags(group, student_id, volunteer) ==
    IF student_id \in Range(group.members) THEN group
    ELSE [group EXCEPT !.members = Append(@, student_id)]

\* Group.add_member, the group's side: append unless already a member, then
\* raise the flags of the roles the volunteer carries.
GroupAddMember(group, student_id, volunteer) ==
    IF student_id \in Range(group.members) THEN group
    ELSE [group EXCEPT
            !.members = Append(@, student_id),
            !.has_lightning = @ \/ has_special_role(volunteer, "lightning"),
            !.has_photography = @ \/ has_special_role(volunteer, "photography")]

\* Group.add_member on the scheduler state
\* st = [volunteers, groups, placed, log]
add_member(st, group_id, student_id) ==
    IF student_id \in Range(st.groups[group_id].members) THEN st
    ELSE [st EXCEPT
            !.groups[group_id] =
                GroupAddMember(@, student_id, st.volunteers[student_id]),
            !.volunteers[student_id].assigned_group_id = group_id]

\* group.add_member(v); self.placed_student_ids.add(v.student_id)
Place(st, group_id, student_id) ==
    [add_member(st, group_id, student_id) EXCEPT
        !.placed = @ \cup {student_id}]

\* ---- _load_volunteers ----
\* a row of a volunteer table: the student id (None when the id or the name
\* cell is empty) and the Volunteer built from the row and the interview table
VolunteerRow(student_id, volunteer) == [student_id |-> student_id, volunteer |-> volunteer]

\* self.volunteers[student_id] = volunteer: a new key goes to the end of the
\* dict, an existing key keeps its place and gets the new value
StoreVolunteer(row, vs) ==
    [volunteers |-> [x \in DOMAIN vs.volunteers \cup {row.student_id} |->
                        IF x = row.student_id THEN row.volunteer ELSE vs.volunteers[x]],
     keys       |-> IF row.student_id \in Range(vs.keys) THEN vs.keys
                    ELSE Append(vs.keys, row.student_id),
     ok         |-> vs.ok]

\* each row in its own try: a row without id or name is skipped with a
\* warning, and so is a row whose id is already loaded
RECURSIVE load_formal_normal_volunteers(_, _)
load_formal_normal_volunteers(rows, vs) ==
    IF rows = <<>> THEN vs
    ELSE IF Head(rows).student_id = None \/ Head(rows).student_id \in DOMAIN vs.volunteers
    THEN load_formal_normal_volunteers(Tail(rows), vs)
    ELSE load_formal_normal_volunteers(Tail(rows), StoreVolunteer(Head(rows), vs))

\* one try around the loop: a row without id or name raises ValueError and
\* the loader returns False; a row whose id is already loaded replaces it
RECURSIVE load_internal_volunteers(_, _)
load_internal_volunteers(rows, vs) ==
    IF rows = <<>> THEN vs
    ELSE IF Head(rows).student_id = None THEN [vs EXCEPT !.ok = FALSE]
    ELSE load_internal_volunteers(Tail(rows), StoreVolunteer(Head(rows), vs))

RECURSIVE load_family_volunteers(_, _)
load_family_volunteers(rows, vs) ==
    IF rows = <<>> THEN vs
    ELSE IF Head(rows).student_id = None THEN [vs EXCEPT !.ok = FALSE]
    ELSE load_family_volunteers(Tail(rows), StoreVolunteer(Head(rows), vs))

\* the tables in the order _load_volunteers reads them; a loader that
\* returns False ends the loading
load_volunteers(table) ==
    LET formal   == load_formal_normal_volunteers(table.normal, [volunteers |-> <<>>, keys |-> <<>>, ok |-> TRUE])
        internal == load_internal_volunteers(table.internal, formal)
    IN  IF internal.ok THEN load_family_volunteers(table.family, internal) ELSE internal

\* ---- _load_groups ----
\* the leader a row resolves to (by student id; a name resolves to an id)
RowLeader(row, vols) ==
    IF row.leader_student_id # None /\ row.leader_student_id \in DOMAIN vols
    THEN row.leader_student_id ELSE None

\* one row of the group table with a positive headcount: build the group,
\* pre-assign its leader
LoadGroupRow(row, st) ==
    LET leader == RowLeader(row, st.volunteers)
        gid    == row.group_id
    IN  IF leader = None
        THEN [st EXCEPT !.groups =
                 [x \in DOMAIN st.groups \cup {gid} |->
                     IF x = gid THEN Group(row.required_count) ELSE st.groups[x]]]
        ELSE LET v == [st.volunteers[leader] EXCEPT
                          !.special_roles = @ \cup {"leader"}]
                 g == [GroupAddMember(Group(row.required_count), leader, v)
                          EXCEPT !.leader = leader]
             IN  [volunteers |-> [st.volunteers EXCEPT
                                    ![leader] = [v EXCEPT !.assigned_group_id = gid]],
                  groups     |-> [x \in DOMAIN st.groups \cup {gid} |->
                                    IF x = gid THEN g ELSE st.groups[x]],
                  placed     |-> st.placed \cup {leader},
                  log        |-> st.log]

RECURSIVE LoadGroupRows(_, _)
LoadGroupRows(rows, st) ==
    IF rows = <<>> \/ Head(rows).required_count <= 0 THEN st
    ELSE LoadGroupRows(Tail(rows), LoadGroupRow(Head(rows), st))

\* Position.__post_init__ raises for a headcount <= 0; the try around the
\* whole loop of _load_groups catches it and the loader returns False
GroupLoadFails(rows) == \E k \in 1..Len(rows) : rows[k].required_count <= 0

\* insertion order of self.groups after the rows
RECURSIVE GroupKeysOf(_, _)
GroupKeysOf(rows, keys) ==
    IF rows = <<>> \/ Head(rows).required_count <= 0 THEN keys
    ELSE GroupKeysOf(Tail(rows),
                     IF Head(rows).group_id \in Range(keys) THEN keys
                     ELSE Append(keys, Head(rows).group_id))

\* ---- phase 1: _assign_leaders ----
\* a loop that gives every group the first candidate
RECURSIVE LeaderLoopKeepingCandidate(_, _, _)
LeaderLoopKeepingCandidate(groups_without_leaders, leader_candidates, st) ==
    IF groups_without_leaders = <<>> \/ leader_candidates = <<>> THEN st
    ELSE LeaderLoopKeepingCandidate(Tail(groups_without_leaders), leader_candidates,
                                    Place([st EXCEPT !.groups[Head(groups_without_leaders)].leader = Head(leader_candidates)],
                                          Head(groups_without_leaders), Head(leader_candidates)))

RECURSIVE LeaderLoop(_, _, _)
LeaderLoop(groups_without_leaders, leader_candidates, st) ==
    IF groups_without_leaders = <<>> \/ leader_candidates = <<>> THEN st
    ELSE LET gid    == Head(groups_without_leaders)
             leader == Head(leader_candidates)
         IN  LeaderLoop(Tail(groups_without_leaders), Tail(leader_candidates),
                        Place([st EXCEPT !.groups[gid].leader = leader],
                              gid, leader))

assign_leaders(st, gkeys, vkeys) ==
    LET groups_without_leaders ==
            FilterSeq(gkeys, {g \in Range(gkeys) : st.groups[g].leader = None})
        leader_candidates ==
            FilterSeq(vkeys, {v \in Range(vkeys) :
                                /\ has_special_role(st.volunteers[v], "leader")
                                /\ st.volunteers[v].assigned_group_id = None})
    IN  LeaderLoop(groups_without_leaders, leader_candidates, st)

\* ---- phase 2: _assign_binding_sets ----
\* a member loop that does not look at the target's remaining capacity
RECURSIVE PinnedMembersIgnoringCapacity(_, _, _)
PinnedMembersIgnoringCapacity(members, gid, st) ==
    IF members = <<>> THEN st
    ELSE IF Head(members) \notin st.placed
    THEN PinnedMembersIgnoringCapacity(Tail(members), gid, Place(st, gid, Head(members)))
    ELSE PinnedMembersIgnoringCapacity(Tail(members), gid, st)

\* for member in binding.members, binding pinned to the existing group gid
RECURSIVE PinnedMembers(_, _, _)
PinnedMembers(members, gid, st) ==
    IF members = <<>> THEN st
    ELSE IF /\ Head(members) \notin st.placed
            /\ get_remaining_capacity(st.groups[gid]) > 0
    THEN PinnedMembers(Tail(members), gid, Place(st, gid, Head(members)))
    ELSE PinnedMembers(Tail(members), gid, st)

\* the line logged for a binding set: a warning when it is skipped, else
\* the group it went to and assigned_count
LogEntry(event, binding_id, group_id, assigned_count) ==
    [event |-> event, binding_id |-> binding_id, group_id |-> group_id,
     assigned_count |-> assigned_count]

\* st after the member loop of a binding set, with its log line
Logged(event, binding, group_id, before, after) ==
    [after EXCEPT !.log =
        Append(@, LogEntry(event, binding.binding_id, group_id,
                           Cardinality(after.placed) - Cardinality(before.placed)))]

\* for binding in priority_bindings
RECURSIVE PinnedLoop(_, _)
PinnedLoop(priority_bindings, st) ==
    IF priority_bindings = <<>> THEN st
    ELSE LET binding == Head(priority_bindings)
         IN  IF binding.target_group_id \notin DOMAIN st.groups
             THEN PinnedLoop(Tail(priority_bindings),
                             Logged("target_group_missing", binding,
                                    binding.target_group_id, st, st))
             ELSE PinnedLoop(Tail(priority_bindings),
                             Logged("pinned_assigned", binding,
                                    binding.target_group_id, st,
                                    PinnedMembers(binding.members,
                                                  binding.target_group_id, st)))

\* a mutant of CanHoldSet: any free place makes the group suitable
HasFreePlace(group, size) == get_remaining_capacity(group) > 0

\* g.get_remaining_capacity() >= binding.get_size()
CanHoldSet(group, size) == get_remaining_capacity(group) >= size

\* a choice of the first suitable group, whatever its remaining capacity
BestGroupFirstSuitable(suitable_groups, best, st) == best

\* max(suitable_groups, key=remaining capacity): the first of the greatest
RECURSIVE BestGroup(_, _, _)
BestGroup(suitable_groups, best, st) ==
    IF suitable_groups = <<>> THEN best
    ELSE IF get_remaining_capacity(st.groups[Head(suitable_groups)])
            > get_remaining_capacity(st.groups[best])
    THEN BestGroup(Tail(suitable_groups), Head(suitable_groups), st)
    ELSE BestGroup(Tail(suitable_groups), best, st)

\* for member in binding.members, free binding placed in best_group
RECURSIVE FreeMembers(_, _, _)
FreeMembers(members, gid, st) ==
    IF members = <<>> THEN st
    ELSE IF Head(members) \notin st.placed
    THEN FreeMembers(Tail(members), gid, Place(st, gid, Head(members)))
    ELSE FreeMembers(Tail(members), gid, st)

\* for binding in free_bindings
RECURSIVE FreeLoop(_, _, _)
FreeLoop(free_bindings, st, gkeys) ==
    IF free_bindings = <<>> THEN st
    ELSE LET binding == Head(free_bindings)
             suitable_groups ==
                 FilterSeq(gkeys, {g \in Range(gkeys) :
                     CanHoldSet(st.groups[g], Len(binding.members))})
             best_group ==
                 BestGroup(Tail(suitable_groups), Head(suitable_groups), st)
         IN  IF suitable_groups = <<>>
             THEN FreeLoop(Tail(free_bindings),
                           Logged("no_suitable_group", binding, None, st, st),
                           gkeys)
             ELSE FreeLoop(Tail(free_bindings),
                           Logged("free_assigned", binding, best_group, st,
                                  FreeMembers(binding.members, best_group, st)),
                           gkeys)

PriorityBindings(bsets) ==
    FilterSeq(bsets, {b \in Range(bsets) : b.target_group_id # None})

\* free_bindings after sort(key=get_size, reverse=True)
FreeBindings(bsets) ==
    StableSortDesc(FilterSeq(bsets, {b \in Range(bsets) : b.target_group_id = None}),
                   [b \in Range(bsets) |-> Len(b.members)])

\* a phase 2 that places the free sets before the pinned ones
assign_binding_sets_free_first(st, gkeys, bsets) ==
    PinnedLoop(PriorityBindings(bsets), FreeLoop(FreeBindings(bsets), st, gkeys))

assign_binding_sets(st, gkeys, bsets) ==
    FreeLoop(FreeBindings(bsets), PinnedLoop(PriorityBindings(bsets), st), gkeys)

\* ---- phase 3: _assign_direct_individuals ----
RECURSIVE assign_direct_individuals(_, _)
assign_direct_individuals(items, st) ==
    IF items = <<>> THEN st
    ELSE LET student_id      == Head(items).student_id
             target_group_id == Head(items).group_id
         IN  IF \/ student_id \in st.placed
                \/ student_id \notin DOMAIN st.volunteers
                \/ target_group_id \notin DOMAIN st.groups
             THEN assign_direct_individuals(Tail(items), st)
             ELSE IF get_remaining_capacity(st.groups[target_group_id]) > 0
             THEN assign_direct_individuals(Tail(items),
                                            Place(st, target_group_id, student_id))
             ELSE assign_direct_individuals(Tail(items), st)

\* a while loop that does not discard the candidates placed by earlier phases
RECURSIVE SpecialistWhileTakingPlaced(_, _, _, _)
SpecialistWhileTakingPlaced(role, gid, candidates, st) ==
    IF candidates = <<>> \/ ~(get_remaining_capacity(st.groups[gid]) > 0)
    THEN [st |-> st, candidates |-> candidates, assigned |-> FALSE]
    ELSE LET student_id == Head(candidates)
         IN  [st |-> Place([st EXCEPT !.volunteers[student_id].special_roles = @ \cup {role}], gid, student_id),
              candidates |-> Tail(candidates),
              assigned   |-> TRUE]

\* ---- phases 4 and 5: _assign_lightning/_photography_volunteers_properly ----
\* the while loop for one group: pops candidates until one is assigned
RECURSIVE SpecialistWhile(_, _, _, _)
SpecialistWhile(role, gid, candidates, st) ==
    IF candidates = <<>> \/ ~(get_remaining_capacity(st.groups[gid]) > 0)
    THEN [st |-> st, candidates |-> candidates, assigned |-> FALSE]
    ELSE LET student_id == Head(candidates)
         IN  IF student_id \in st.placed
             THEN SpecialistWhile(role, gid, Tail(candidates), st)
             ELSE IF st.volunteers[student_id].volunteer_type # "normal"
             THEN SpecialistWhile(role, gid, Tail(candidates), st)
             ELSE [st |-> Place([st EXCEPT
                                   !.volunteers[student_id].special_roles =
                                       @ \cup {role}],
                                gid, student_id),
                   candidates |-> Tail(candidates),
                   assigned   |-> TRUE]

\* for group in groups_without_<role>; failed collects failed_assignments
RECURSIVE SpecialistLoop(_, _, _, _, _)
SpecialistLoop(role, needy_groups, candidates, st, failed) ==
    IF needy_groups = <<>> THEN [st |-> st, failed |-> failed]
    ELSE LET gid == Head(needy_groups)
             r   == SpecialistWhile(role, gid, candidates, st)
         IN  SpecialistLoop(role, Tail(needy_groups), r.candidates, r.st,
                 IF ~r.assigned /\ get_remaining_capacity(r.st.groups[gid]) > 0
                 THEN Append(failed, gid) ELSE failed)

\* the lightning candidates left in the order of self.volunteers
LightningCandidatesUnsorted(st, vkeys) ==
    FilterSeq(vkeys, {v \in Range(vkeys) : is_eligible_for_lightning(st.volunteers[v])})

\* lightning_candidates after sort(key=score, reverse=True)
LightningCandidates(st, vkeys) ==
    StableSortDesc(FilterSeq(vkeys, {v \in Range(vkeys) :
                                is_eligible_for_lightning(st.volunteers[v])}),
                   [v \in Range(vkeys) |-> st.volunteers[v].lightning_score])

PhotographyCandidates(st, vkeys) ==
    StableSortDesc(FilterSeq(vkeys, {v \in Range(vkeys) :
                                is_eligible_for_photography(st.volunteers[v])}),
                   [v \in Range(vkeys) |-> st.volunteers[v].photography_score])

GroupsWithoutLightning(st, gkeys) ==
    FilterSeq(gkeys, {g \in Range(gkeys) :
                        /\ ~st.groups[g].has_lightning
                        /\ get_remaining_capacity(st.groups[g]) > 0})

GroupsWithoutPhotography(st, gkeys) ==
    FilterSeq(gkeys, {g \in Range(gkeys) :
                        /\ ~st.groups[g].has_photography
                        /\ get_remaining_capacity(st.groups[g]) > 0})

assign_lightning_volunteers_properly(st, gkeys, vkeys) ==
    SpecialistLoop("lightning", GroupsWithoutLightning(st, gkeys),
                   LightningCandidates(st, vkeys), st, <<>>)

assign_photography_volunteers_properly(st, gkeys, vkeys) ==
    SpecialistLoop("photography", GroupsWithoutPhotography(st, gkeys),
                   PhotographyCandidates(st, vkeys), st, <<>>)

\* ---- phase 6: _assign_remaining_internal_family ----
\* while group_index < len(available_groups) and <remaining> <= 0.  The
\* remaining capacity stored with a group is refreshed after each placement
\* into it and no other group changes, so it is the group's current one.
RECURSIVE SkipFullGroups(_, _, _)
SkipFullGroups(available_groups, group_index, st) ==
    IF /\ group_index <= Len(available_groups)
       /\ get_remaining_capacity(st.groups[available_groups[group_index]]) <= 0
    THEN SkipFullGroups(available_groups, group_index + 1, st)
    ELSE group_index

RECURSIVE InternalFamilyLoop(_, _, _, _)
InternalFamilyLoop(remaining_volunteers, available_groups, group_index, st) ==
    IF remaining_volunteers = <<>> THEN st
    ELSE LET idx == SkipFullGroups(available_groups, group_index, st)
         IN  IF idx > Len(available_groups) THEN st
             ELSE InternalFamilyLoop(Tail(remaining_volunteers),
                                     available_groups, idx,
                                     Place(st, available_groups[idx],
                                           Head(remaining_volunteers)))

assign_remaining_internal_family(st, gkeys, vkeys) ==
    LET remaining_volunteers ==
            FilterSeq(vkeys, {v \in Range(vkeys) :
                /\ v \notin st.placed
                /\ st.volunteers[v].volunteer_type \in {"internal", "family"}})
        available_groups ==
            StableSortDesc(
                FilterSeq(gkeys, {g \in Range(gkeys) :
                             get_remaining_capacity(st.groups[g]) > 0}),
                [g \in Range(gkeys) |-> get_remaining_capacity(st.groups[g])])
    IN  InternalFamilyLoop(remaining_volunteers, available_groups, 1, st)

\* ---- phase 7: _final_fill ----
\* v.normalized_score or 0
ScoreOrZero(volunteer) ==
    IF volunteer.normalized_score = None THEN 0 ELSE volunteer.normalized_score

\* for i, volunteer in enumerate(remaining_volunteers)
RECURSIVE FinalFillLoop(_, _, _)
FinalFillLoop(remaining_volunteers, available_spots, st) ==
    IF remaining_volunteers = <<>> \/ available_spots = <<>> THEN st
    ELSE FinalFillLoop(Tail(remaining_volunteers), Tail(available_spots),
                       Place(st, Head(available_spots), Head(remaining_volunteers)))

\* a final fill that only takes the volunteers with a score
RemainingScoredVolunteers(st, vkeys) ==
    StableSortDesc(FilterSeq(vkeys, {v \in Range(vkeys) : v \notin st.placed /\ st.volunteers[v].normalized_score # None}),
                   [v \in Range(vkeys) |-> ScoreOrZero(st.volunteers[v])])

\* a final fill that takes the unplaced volunteers in row order, unsorted
RemainingVolunteersUnsorted(st, vkeys) ==
    FilterSeq(vkeys, {v \in Range(vkeys) : v \notin st.placed})

\* remaining_volunteers after sort(key=normalized_score or 0, reverse=True)
RemainingVolunteers(st, vkeys) ==
    StableSortDesc(FilterSeq(vkeys, {v \in Range(vkeys) : v \notin st.placed}),
                   [v \in Range(vkeys) |-> ScoreOrZero(st.volunteers[v])])

final_fill(st, gkeys, vkeys) ==
    LET remaining_volunteers == RemainingVolunteers(st, vkeys)
        available_spots ==
            Flatten([k \in 1..Len(gkeys) |->
                       Repeat(gkeys[k], get_remaining_capacity(st.groups[gkeys[k]]))])
    IN  FinalFillLoop(remaining_volunteers, available_spots, st)

-----------------------------------------------------------------------------
(* Idle values of each subsystem's variables *)

BalancerIdle ==
    /\ position_requirements = <<>>
    /\ target_groups = 0
    /\ split_result = <<>>
    /\ bal_pc = "idle"

BinderIdle ==
    /\ all_bindings = <<>>
    /\ bg_direct_assignments = <<>>
    /\ merged_bindings = <<>>
    /\ final_bindings = <<>>
    /\ conflicts = <<>>
    /\ binding_counter = 1
    /\ bg_pc = "idle"

EngineIdle ==
    /\ group_info = <<>>
    /\ volunteer_table = <<>>
    /\ volunteer_keys = <<>>
    /\ volunteers = <<>>
    /\ group_keys = <<>>
    /\ groups = <<>>
    /\ binding_sets = <<>>
    /\ direct_assignments = <<>>
    /\ placed_student_ids = {}
    /\ failed_assignments = <<>>
    /\ scheduling_log = <<>>
    /\ scheduling_result = <<>>
    /\ pc = "idle"

-----------------------------------------------------------------------------
(* Specification of the balancer *)

\* all lists of length 0..n over S
SeqsUpTo(S, n) == UNION {[1..k -> S] : k \in 0..n}

InitBalancer ==
    /\ position_requirements \in SeqsUpTo(0..MaxHeadcount, MaxCategories)
    /\ target_groups \in (-1)..MaxTargetGroups
    /\ split_result = <<>>
    /\ bal_pc = "call"
    /\ BinderIdle
    /\ EngineIdle

CallSplitVolunteers ==
    /\ bal_pc = "call"
    /\ split_result' = split_volunteers(position_requirements, target_groups)
    /\ bal_pc' = "returned"
    /\ UNCHANGED <<position_requirements, target_groups, bgVars, engVars>>

NextBalancer == CallSplitVolunteers

SpecBalancer == InitBalancer /\ [][NextBalancer]_vars


-----------------------------------------------------------------------------
(* Specification of the binder: generate_binding_sets, steps 2 to 5 *)

\* rows of the couple table: two student ids
CoupleRows == [1..2 -> BgStudents]
\* rows of the family table: <<internal, family member>> when the binding
\* resolves, <<family member>> when it does not
FamilyRows == [1..2 -> BgStudents] \cup [1..1 -> BgStudents]
\* the rows of one group file: 1..MaxRosterLen student ids
Rosters == UNION {[1..k -> BgStudents] : k \in 1..MaxRosterLen}

\* bg_direct_assignments: student id -> target group, None for no entry
DirectTables == [BgStudents -> {None} \cup (1..NumTargetGroups)]

InitBinder ==
    /\ \E couples \in SeqsUpTo(CoupleRows, 1),
          family  \in SeqsUpTo(FamilyRows, 1),
          rosters \in SeqsUpTo(Rosters, 1) :
          LET cb == generate_couple_bindings(couples, 1)
              fb == generate_family_bindings(family, 1 + Len(cb))
              gb == generate_group_bindings(rosters, 1 + Len(cb) + Len(fb))
          IN  /\ all_bindings = cb \o fb \o gb
              /\ binding_counter = 1 + Len(cb) + Len(fb) + Len(gb)
    /\ bg_direct_assignments \in DirectTables
    /\ merged_bindings = <<>>
    /\ final_bindings = <<>>
    /\ conflicts = <<>>
    /\ bg_pc = "merge"
    /\ BalancerIdle
    /\ EngineIdle

\* step 3: _merge_overlapping_bindings
MergeOverlappingBindings ==
    /\ bg_pc = "merge"
    /\ LET r == merge_overlapping_bindings(all_bindings, binding_counter)
       IN  /\ merged_bindings' = r.merged
           /\ binding_counter' = r.counter
    /\ bg_pc' = "apply"
    /\ UNCHANGED <<all_bindings, bg_direct_assignments, final_bindings,
                   conflicts, balVars, engVars>>

\* step 4: _apply_direct_assignments
ApplyDirectAssignments ==
    /\ bg_pc = "apply"
    /\ final_bindings' =
          apply_direct_assignments(merged_bindings, bg_direct_assignments)
    \* the pins are set on the binding objects themselves, which the merged
    \* list holds too
    /\ merged_bindings' = final_bindings'
    /\ bg_pc' = "check"
    /\ UNCHANGED <<all_bindings, bg_direct_assignments,
                   conflicts, binding_counter, balVars, engVars>>

\* step 5: _check_assignment_conflicts
CheckAssignmentConflicts ==
    /\ bg_pc = "check"
    /\ conflicts' =
          check_assignment_conflicts(final_bindings, bg_direct_assignments)
    /\ bg_pc' = "done"
    /\ UNCHANGED <<all_bindings, bg_direct_assignments, merged_bindings,
                   final_bindings, binding_counter, balVars, engVars>>

NextBinder ==
    \/ MergeOverlappingBindings
    \/ ApplyDirectAssignments
    \/ CheckAssignmentConflicts

SpecBinder == InitBinder /\ [][NextBinder]_vars

-----------------------------------------------------------------------------
(* Specification of the engine: load_data from _load_groups on, then the   *)
(* seven phases of execute_scheduling                                      *)

\* Bounds of the engine inputs
MaxRequired == 2    \* largest required_count of a group row
MaxScore    == 2    \* largest interview score

StudentIds == {1, 2, 3}
GroupIds   == {1, 2}
\* a group id that no row of the group table defines
MissingGroup == 3

\* what _load_volunteers can leave for one student: an internal volunteer
\* with the leader role, a family volunteer, or a normal volunteer with the
\* scores of the interview table (normalized, lightning, photography).  A
\* group volunteer or an internal one without the role goes through the
\* phases like the family or the unscored normal volunteer.
VolunteerProfiles ==
    {Volunteer("internal", {"leader"}, None, None, None),
     Volunteer("family", {}, None, None, None),
     Volunteer("normal", {}, None, None, None),
     Volunteer("normal", {}, 1, 1, None),
     Volunteer("normal", {}, MaxScore, MaxScore, None),
     Volunteer("normal", {}, 1, None, 1),
     Volunteer("normal", {}, MaxScore, 1, MaxScore)}

\* the order of the rows inside each volunteer table, which need not be the
\* order of the student ids
KeyOrder == <<3, 1, 2>>

ProfilesOf(volunteer_type) == {p \in VolunteerProfiles : p.volunteer_type = volunteer_type}

RECURSIVE RowsOf(_, _, _)
RowsOf(volunteer_type, ids, f) ==
    IF ids = <<>> THEN <<>>
    ELSE IF f[Head(ids)].volunteer_type = volunteer_type
    THEN <<VolunteerRow(Head(ids), f[Head(ids)])>> \o RowsOf(volunteer_type, Tail(ids), f)
    ELSE RowsOf(volunteer_type, Tail(ids), f)

\* the three volunteer tables when every student has exactly one row
RegularTable(f) ==
    [normal   |-> RowsOf("normal", KeyOrder, f),
     internal |-> RowsOf("internal", KeyOrder, f),
     family   |-> RowsOf("family", KeyOrder, f)]

RegularVolunteerTables == {RegularTable(f) : f \in [StudentIds -> VolunteerProfiles]}

\* tables with one more row at the end of one table: a second row for
\* student 1, or a row without id or name
IrregularBase ==
    RegularTable([v \in StudentIds |->
        IF v = 3 THEN Volunteer("normal", {}, 1, 1, None)
        ELSE IF v = 1 THEN Volunteer("normal", {}, MaxScore, MaxScore, None)
        ELSE Volunteer("family", {}, None, None, None)])

ExtraRows(volunteer_type) == {VolunteerRow(id, p) : id \in {None, 1}, p \in ProfilesOf(volunteer_type)}

IrregularVolunteerTables ==
    {[IrregularBase EXCEPT !.normal = Append(@, r)] : r \in ExtraRows("normal")}
    \cup {[IrregularBase EXCEPT !.internal = Append(@, r)] : r \in ExtraRows("internal")}
    \cup {[IrregularBase EXCEPT !.family = Append(@, r)] : r \in ExtraRows("family")}

VolunteerTables == RegularVolunteerTables \cup IrregularVolunteerTables

\* the group table: one row per group id, in id order, with one group or
\* two; a headcount of 0 is a row the loader rejects
GroupRows(gid) ==
    [group_id : {gid}, required_count : 0..MaxRequired,
     leader_student_id : {None, 1, 2}]

GroupTables ==
    {<<r1>> : r1 \in GroupRows(1)}
    \cup {<<r1, r2>> : r1 \in GroupRows(1), r2 \in GroupRows(2)}

\* the binding table, grouped by binding id: members known to the scheduler
\* and without repetition (BindingSet.add_member), optional target group
LoadedBindingSet(binding_id, members, target_group_id) ==
    [binding_id |-> binding_id, members |-> members,
     target_group_id |-> target_group_id]

Targets == {None} \cup GroupIds \cup {MissingGroup}

BindingTables ==
    {<<>>}
    \cup {<<LoadedBindingSet(1, m, t)>> :
             m \in {<<1, 2>>, <<1, 2, 3>>}, t \in Targets}
    \cup {<<LoadedBindingSet(1, <<3>>, None), LoadedBindingSet(2, <<1, 2>>, t)>> :
             t \in Targets}

\* the direct assignment table as dict items
DirectItem(student_id, group_id) ==
    [student_id |-> student_id, group_id |-> group_id]

DirectAssignmentTables ==
    {<<>>}
    \cup {<<DirectItem(v, g)>> : v \in {1, 3}, g \in GroupIds \cup {MissingGroup}}
    \cup {<<DirectItem(1, g1), DirectItem(2, g2)>> : g1, g2 \in GroupIds}

\* the pairs <<binding table, direct assignment table>> of a run: either
\* table alone, or the pair {1, 2}, free or pinned to group 1, together
\* with direct assignments
LoadedTables ==
    {<<b, <<>> >> : b \in BindingTables}
    \cup {<< <<>>, d>> : d \in DirectAssignmentTables}
    \cup {<< <<LoadedBindingSet(1, <<1, 2>>, t)>>, d>> :
             t \in {None, 1}, d \in DirectAssignmentTables}

StateOf(vols, grps, placed, log) ==
    [volunteers |-> vols, groups |-> grps, placed |-> placed, log |-> log]

\* a scheduler whose phases do not see who was placed by the earlier phases
CurrentStateForgettingPlaced == StateOf(volunteers, groups, {}, scheduling_log)

CurrentState == StateOf(volunteers, groups, placed_student_ids, scheduling_log)

\* the assignments a phase makes to the scheduler's objects
Becomes(st) ==
    /\ volunteers' = st.volunteers
    /\ groups' = st.groups
    /\ placed_student_ids' = st.placed
    /\ scheduling_log' = st.log

Init ==
    /\ volunteer_table \in VolunteerTables
    /\ volunteers = <<>>
    /\ volunteer_keys = <<>>
    /\ group_info \in GroupTables
    /\ group_keys = <<>>
    /\ groups = <<>>
    /\ binding_sets = <<>>
    /\ direct_assignments = <<>>
    /\ placed_student_ids = {}
    /\ failed_assignments = [lightning |-> <<>>, photography |-> <<>>]
    /\ scheduling_log = <<>>
    /\ scheduling_result = <<>>
    /\ pc = "load_volunteers"
    /\ BalancerIdle
    /\ BinderIdle

\* load_data step 2: _load_volunteers; load_data returns False when it does
LoadVolunteers ==
    /\ pc = "load_volunteers"
    /\ LET loaded == load_volunteers(volunteer_table)
       IN  /\ volunteers' = loaded.volunteers
           /\ volunteer_keys' = loaded.keys
           /\ pc' = IF loaded.ok THEN "load_groups" ELSE "load_failed"
    /\ UNCHANGED <<group_info, volunteer_table, group_keys, groups, binding_sets,
                   direct_assignments, placed_student_ids, failed_assignments,
                   scheduling_log, scheduling_result, balVars, bgVars>>

\* load_data step 3: _load_groups; the groups loaded before a rejected row
\* stay in self.groups and load_data returns False
LoadGroups ==
    /\ pc = "load_groups"
    /\ Becomes(LoadGroupRows(group_info, CurrentState))
    /\ group_keys' = GroupKeysOf(group_info, <<>>)
    /\ pc' = IF GroupLoadFails(group_info) THEN "load_failed" ELSE "load_bindings"
    /\ UNCHANGED <<group_info, volunteer_table, volunteer_keys, binding_sets, direct_assignments,
                   failed_assignments, scheduling_result, balVars, bgVars>>

\* load_data steps 4 and 5: _load_binding_sets, _load_direct_assignments
LoadBindingsAndDirectAssignments ==
    /\ pc = "load_bindings"
    /\ \E tables \in LoadedTables :
          /\ binding_sets' = tables[1]
          /\ direct_assignments' = tables[2]
    /\ pc' = "leaders"
    /\ UNCHANGED <<group_info, volunteer_table, volunteer_keys, volunteers, group_keys, groups,
                   placed_student_ids, failed_assignments, scheduling_log,
                   scheduling_result, balVars, bgVars>>

\* phase 1
AssignLeaders ==
    /\ pc = "leaders"
    /\ Becomes(assign_leaders(CurrentState, group_keys, volunteer_keys))
    /\ pc' = "binding_sets"
    /\ UNCHANGED <<group_info, volunteer_table, volunteer_keys, group_keys, binding_sets,
                   direct_assignments, failed_assignments, scheduling_result,
                   balVars, bgVars>>

\* phase 2
AssignBindingSets ==
    /\ pc = "binding_sets"
    /\ Becomes(assign_binding_sets(CurrentState, group_keys, binding_sets))
    /\ pc' = "direct_individuals"
    /\ UNCHANGED <<group_info, volunteer_table, volunteer_keys, group_keys, binding_sets,
                   direct_assignments, failed_assignments, scheduling_result,
                   balVars, bgVars>>

\* phase 3
AssignDirectIndividuals ==
    /\ pc = "direct_individuals"
    /\ Becomes(assign_direct_individuals(direct_assignments, CurrentState))
    /\ pc' = "lightning"
    /\ UNCHANGED <<group_info, volunteer_table, volunteer_keys, group_keys, binding_sets,
                   direct_assignments, failed_assignments, scheduling_result,
                   balVars, bgVars>>

\* phase 4
AssignLightningVolunteers ==
    /\ pc = "lightning"
    /\ LET r == assign_lightning_volunteers_properly(CurrentState, group_keys,
                                                     volunteer_keys)
       IN  /\ Becomes(r.st)
           /\ failed_assignments' =
                 [failed_assignments EXCEPT !.lightning = r.failed]
    /\ pc' = "photography"
    /\ UNCHANGED <<group_info, volunteer_table, volunteer_keys, group_keys, binding_sets,
                   direct_assignments, scheduling_result, balVars, bgVars>>

\* phase 5
AssignPhotographyVolunteers ==
    /\ pc = "photography"
    /\ LET r == assign_photography_volunteers_properly(CurrentState, group_keys,
                                                       volunteer_keys)
       IN  /\ Becomes(r.st)
           /\ failed_assignments' =
                 [failed_assignments EXCEPT !.photography = r.failed]
    /\ pc' = "internal_family"
    /\ UNCHANGED <<group_info, volunteer_table, volunteer_keys, group_keys, binding_sets,
                   direct_assignments, scheduling_result, balVars, bgVars>>

\* phase 6
AssignRemainingInternalFamily ==
    /\ pc = "internal_family"
    /\ Becomes(assign_remaining_internal_family(CurrentState, group_keys,
                                                volunteer_keys))
    /\ pc' = "final_fill"
    /\ UNCHANGED <<group_info, volunteer_table, volunteer_keys, group_keys, binding_sets,
                   direct_assignments, failed_assignments, scheduling_result,
                   balVars, bgVars>>

\* phase 7, and the AssignmentResult execute_scheduling returns
FinalFill ==
    /\ pc = "final_fill"
    /\ Becomes(final_fill(CurrentState, group_keys, volunteer_keys))
    /\ scheduling_result' =
          <<[success |-> TRUE,
             assigned_count |-> Cardinality(placed_student_ids')]>>
    /\ pc' = "done"
    /\ UNCHANGED <<group_info, volunteer_table, volunteer_keys, group_keys, binding_sets,
                   direct_assignments, failed_assignments, balVars, bgVars>>

Next ==
    \/ LoadVolunteers
    \/ LoadGroups
    \/ LoadBindingsAndDirectAssignments
    \/ AssignLeaders
    \/ AssignBindingSets
    \/ AssignDirectIndividuals
    \/ AssignLightningVolunteers
    \/ AssignPhotographyVolunteers
    \/ AssignRemainingInternalFamily
    \/ FinalFill

Spec == Init /\ [][Next]_vars

-----------------------------------------------------------------------------
(* Properties of the balancer (checked under SpecBalancer) *)

BalReturned == bal_pc = "returned"

\* the call is outside the "empty result" edge cases of the contract
BalProperCall == position_requirements # <<>> /\ target_groups > 0

\* C5: Balancer conservation: for a non-empty list of headcounts and
\* target_groups > 0, every returned sublist sums to the headcount of its
\* category and the sum over all entries equals the sum of the headcounts,
\* also when the independent categories use up all target_groups slots.
C5_BalancerConservation ==
    (BalReturned /\ BalProperCall) =>
        /\ \A i \in 1..Len(split_result) :
              SumSeq(split_result[i]) = position_requirements[i]
        /\ SumSeq(Flatten(split_result)) = SumSeq(position_requirements)

\* C6: Balancer group count: the number of groups emitted is at most
\* target_groups, and equals target_groups when every category has headcount
\* >= 1 and target_groups is at least the number of independent categories.
C6_BalancerGroupCount ==
    (BalReturned /\ BalProperCall) =>
        /\ Len(Flatten(split_result)) <= target_groups
        /\ ( ( /\ \A i \in 1..Len(position_requirements) :
                     position_requirements[i] >= 1
               /\ target_groups >=
                     Cardinality(IndependentIndices(position_requirements,
                                                    target_groups)) )
             => Len(Flatten(split_result)) = target_groups )

\* one sublist per input category, in input order: a category of headcount 0
\* has the empty sublist and a non-empty sublist holds its own category's
\* headcount
OneSublistPerCategory ==
    /\ Len(split_result) = Len(position_requirements)
    /\ \A i \in 1..Len(position_requirements) :
          /\ position_requirements[i] = 0 => split_result[i] = <<>>
          /\ split_result[i] # <<>> =>
                SumSeq(split_result[i]) = position_requirements[i]

\* C7 as stated: for non-empty requirements and target_groups > 0 the result
\* has one sublist per category, headcount 0 giving the empty sublist, also
\* when all headcounts are 0; otherwise the result is empty.
C7_ResultShapeAsStated ==
    BalReturned =>
        IF BalProperCall THEN OneSublistPerCategory ELSE split_result = <<>>

\* C7 amended: the same, except that a list whose headcounts are all 0 is
\* answered like empty requirements, with the empty result.
C7_ResultShape ==
    BalReturned =>
        IF BalProperCall /\ TotalPeople(position_requirements) > 0
        THEN OneSublistPerCategory
        ELSE split_result = <<>>

\* a call with a zero and a positive headcount has returned its sublists
C7_Witness ==
    /\ BalReturned
    /\ target_groups > 0
    /\ \E i, j \in 1..Len(position_requirements) :
          /\ position_requirements[i] = 0
          /\ position_requirements[j] > 0
          /\ split_result[i] = <<>>
          /\ split_result[j] # <<>>

-----------------------------------------------------------------------------
(* Properties of the binder *)

BgMerged == bg_pc # "merge"
BgDone == bg_pc = "done"

MemberSet(binding) == Range(binding.members)

\* two input bindings name a common person
Shares(i, j) == MemberSet(all_bindings[i]) \cap MemberSet(all_bindings[j]) # {}

\* the input bindings linked to those of S by a chain of common persons
RECURSIVE Linked(_)
Linked(S) ==
    LET T == S \cup {j \in 1..Len(all_bindings) : \E i \in S : Shares(i, j)}
    IN  IF T = S THEN S ELSE Linked(T)

PersonsOf(S) == UNION {MemberSet(all_bindings[i]) : i \in S}

OutputsHolding(P) ==
    {k \in 1..Len(merged_bindings) : P \subseteq MemberSet(merged_bindings[k])}

\* C8: after the merge, input sets linked through any chain of common
\* persons lie in the same output set, every person of the inputs is in
\* exactly one output set, and the members of each output set are exactly
\* the union of the members of the linked input sets it absorbed.
C8_MergeIsTransitiveClosure ==
    BgMerged =>
        /\ \A i \in 1..Len(all_bindings) :
              \A j \in Linked({i}) :
                 \E k \in 1..Len(merged_bindings) :
                    /\ MemberSet(all_bindings[i]) \subseteq MemberSet(merged_bindings[k])
                    /\ MemberSet(all_bindings[j]) \subseteq MemberSet(merged_bindings[k])
        /\ \A p \in PersonsOf(1..Len(all_bindings)) :
              Cardinality(OutputsHolding({p})) = 1
        /\ \A k \in 1..Len(merged_bindings) :
              \E i \in 1..Len(all_bindings) :
                 MemberSet(merged_bindings[k]) = PersonsOf(Linked({i}))

\* a merge that needed the closure: two input sets with no common person
\* joined through a third into the only output set
C8_Witness ==
    /\ BgMerged
    /\ Len(merged_bindings) = 1
    /\ \E i \in 1..Len(all_bindings) :
          \E j \in Linked({i}) : ~Shares(i, j)

NoRepeatedMember(binding) ==
    \A a, b \in 1..Len(binding.members) :
       binding.members[a] = binding.members[b] => a = b

\* C9: no binding set emitted by the builder lists the same person twice.
C9_NoDuplicateMembers ==
    BgDone => \A k \in 1..Len(final_bindings) : NoRepeatedMember(final_bindings[k])

\* the distinct targets the direct-assignment table gives to the members
DistinctTargets(binding) ==
    {bg_direct_assignments[m] : m \in MemberSet(binding)} \ {None}

HasConflict(binding) ==
    \E c \in 1..Len(conflicts) : conflicts[c].binding_id = binding.binding_id

\* C10: once the direct assignments are attached and the conflicts are
\* checked, a set is pinned to t exactly when the distinct targets of its
\* members are {t}; a conflict is recorded exactly when there is more than
\* one distinct target, and that set has no pin; a set none of whose members
\* is directly assigned has neither a pin nor a conflict.
C10_DirectAssignmentAttachment ==
    BgDone =>
        \A k \in 1..Len(final_bindings) :
           LET b == final_bindings[k]
               T == DistinctTargets(b)
           IN  /\ \A t \in 1..NumTargetGroups :
                     (b.target_group_id = t) <=> (T = {t})
               /\ HasConflict(b) <=> Cardinality(T) > 1
               /\ HasConflict(b) => b.target_group_id = None
               /\ T = {} => b.target_group_id = None /\ ~HasConflict(b)

\* one set pinned by a single target and another recorded as a conflict
C10_Witness ==
    /\ BgDone
    /\ \E k \in 1..Len(final_bindings) :
          /\ final_bindings[k].target_group_id # None
          /\ Cardinality(DistinctTargets(final_bindings[k])) = 1
    /\ \E k \in 1..Len(final_bindings) :
          /\ HasConflict(final_bindings[k])
          /\ final_bindings[k].target_group_id = None

-----------------------------------------------------------------------------
(* Properties of the engine *)

RunDone == pc = "done"

MembersOf(g) == Range(groups[g].members)

GroupsHolding(v) == {g \in DOMAIN groups : v \in MembersOf(g)}

\* C1: after a complete run (groups loaded with their leaders, then the
\* seven phases) every person is a member of at most one group.
C1_NoDoublePlacement ==
    RunDone => \A v \in StudentIds : Cardinality(GroupsHolding(v)) <= 1

\* C2: in every state of a run, from the loading of the groups to the end of
\* the last phase, no group has more members than its required size.
C2_CapacityRespected ==
    \A g \in DOMAIN groups : Len(groups[g].members) <= groups[g].required_count

\* the capacity decided the run: every group is full, a binding set found
\* no group able to hold it and somebody stays unplaced
C2_Witness ==
    /\ RunDone
    /\ \A g \in DOMAIN groups : Len(groups[g].members) = groups[g].required_count
    /\ \E k \in 1..Len(scheduling_log) :
          scheduling_log[k].event = "no_suitable_group"
    /\ StudentIds \ placed_student_ids # {}

\* binding sets the binding phase placed rather than skipped
PlacedBindings ==
    {b \in Range(binding_sets) :
        \E k \in 1..Len(scheduling_log) :
           /\ scheduling_log[k].binding_id = b.binding_id
           /\ scheduling_log[k].event \in {"pinned_assigned", "free_assigned"}}

\* C3: at the end of a run all members of every binding set that the binding
\* phase placed (pinned or free) are members of one and the same group, also
\* when a member was placed before the phase or the pinned group filled up.
C3_BindingIntegrity ==
    RunDone =>
        \A b \in PlacedBindings :
           \E g \in DOMAIN groups : Range(b.members) \subseteq MembersOf(g)

\* C4: at the end of a run every person with a direct assignment to an
\* existing group who is placed at all is a member of that group only.
C4_DirectAssignmentIsHardPin ==
    RunDone =>
        \A k \in 1..Len(direct_assignments) :
           direct_assignments[k].group_id \in DOMAIN groups =>
              GroupsHolding(direct_assignments[k].student_id)
                 \subseteq {direct_assignments[k].group_id}

BindingStep == pc = "binding_sets" /\ pc' = "direct_individuals"
DirectStep == pc = "direct_individuals" /\ pc' = "lightning"

\* the distinct groups the direct assignment table gives to the members
DirectTargetsOf(b) ==
    {direct_assignments[k].group_id :
        k \in {j \in 1..Len(direct_assignments) :
                  direct_assignments[j].student_id \in Range(b.members)}}

\* binding sets left without a pin because their members are directly
\* assigned to different groups
ConflictSets ==
    {b \in Range(binding_sets) :
        b.target_group_id = None /\ Cardinality(DirectTargetsOf(b)) > 1}

Remaining(g) == groups[g].required_count - Len(groups[g].members)

HoldersOf(n) == {g \in DOMAIN groups : Remaining(g) >= n}

\* the free-binding rule: greatest remaining capacity among the groups able
\* to hold n, the first in group order on ties
FreeRuleGroup(n) ==
    CHOOSE g \in HoldersOf(n) :
       \A h \in HoldersOf(n) :
          \/ Remaining(g) > Remaining(h)
          \/ Remaining(g) = Remaining(h)
             /\ IndexOf(group_keys, g) <= IndexOf(group_keys, h)

\* C11: a binding set whose members are directly assigned to different
\* groups is not handled as a pinned set; the binding phase places it as a
\* whole in the group the free-binding rule chooses, if some group can hold
\* it; the direct-individuals phase leaves its placed members where they are.
\* (Such a set is the only set of its table, so the rule applies to the
\* groups as the phase finds them.)
C11_ConflictSetTreatedAsFree ==
    [][ /\ BindingStep =>
             \A b \in ConflictSets :
                /\ \A k \in 1..Len(scheduling_log') :
                      scheduling_log'[k].binding_id = b.binding_id =>
                         scheduling_log'[k].event
                            \in {"free_assigned", "no_suitable_group"}
                /\ (binding_sets = <<b>> /\ HoldersOf(Len(b.members)) # {}) =>
                      Range(b.members) \subseteq
                         Range(groups'[FreeRuleGroup(Len(b.members))].members)
        /\ DirectStep =>
             \A b \in ConflictSets :
                \A m \in Range(b.members) \cap placed_student_ids :
                   {g \in DOMAIN groups : m \in Range(groups'[g].members)}
                      = GroupsHolding(m)
      ]_vars

\* candidates of equal score are ranked by ascending id
TiesRankedById(ranked, score) ==
    \A i, j \in 1..Len(ranked) :
       (i < j /\ score[ranked[i]] = score[ranked[j]]) => ranked[i] < ranked[j]

\* C12: in every score-ranked phase (the two specialist passes and the final
\* fill) candidates of equal score are ranked by ascending person id,
\* whatever the order in which the people were supplied.
C12_ScoreTiesBrokenById ==
    /\ pc = "lightning" =>
          TiesRankedById(LightningCandidates(CurrentState, volunteer_keys),
                         [v \in StudentIds |-> volunteers[v].lightning_score])
    /\ pc = "photography" =>
          TiesRankedById(PhotographyCandidates(CurrentState, volunteer_keys),
                         [v \in StudentIds |-> volunteers[v].photography_score])
    /\ pc = "final_fill" =>
          TiesRankedById(RemainingVolunteers(CurrentState, volunteer_keys),
                         [v \in StudentIds |-> ScoreOrZero(volunteers[v])])


\* a second run of the engine, computed phase by phase from the loaded tables:
\* its final objects and the groups each specialist pass left unfilled
SecondRun ==
    LET keys == GroupKeysOf(group_info, <<>>)
        table == load_volunteers(volunteer_table)
        loaded == LoadGroupRows(group_info, StateOf(table.volunteers, <<>>, {}, <<>>))
        led == assign_leaders(loaded, keys, table.keys)
        bound == assign_binding_sets(led, keys, binding_sets)
        pinned == assign_direct_individuals(direct_assignments, bound)
        lightning == assign_lightning_volunteers_properly(pinned, keys, table.keys)
        photography == assign_photography_volunteers_properly(lightning.st, keys, table.keys)
        family == assign_remaining_internal_family(photography.st, keys, table.keys)
        final == final_fill(family, keys, table.keys)
    IN  [st |-> final, volunteer_keys |-> table.keys, keys |-> keys,
         failed |-> [lightning |-> lightning.failed, photography |-> photography.failed],
         result |-> [success |-> TRUE, assigned_count |-> Cardinality(final.placed)]]

AllVolunteerRows == IF volunteer_table = <<>> THEN <<>> ELSE volunteer_table.normal \o volunteer_table.internal \o volunteer_table.family

\* the same person id on two rows of the volunteer tables
DuplicatePersonId == \E i, j \in 1..Len(AllVolunteerRows) : i < j /\ AllVolunteerRows[i].student_id # None /\ AllVolunteerRows[i].student_id = AllVolunteerRows[j].student_id

\* a loaded direct assignment whose target group is not in self.groups
DanglingDirectAssignment == \E k \in 1..Len(direct_assignments) : direct_assignments[k].group_id \notin Range(group_keys)

\* C14: Structural errors abort the run: when the inputs hold the same person
\* id twice, or a direct assignment whose target group does not exist, the
\* engine refuses to proceed: the loading fails, no phase runs, nobody is
\* placed and no successful result is returned.
C14_StructuralErrorsAbort ==
    /\ DuplicatePersonId => (pc \in {"load_volunteers", "load_failed"} /\ placed_student_ids = {} /\ scheduling_result = <<>>)
    /\ DanglingDirectAssignment => (pc = "load_failed" /\ scheduling_result = <<>>)

\* a person row without id or name, a group row with a headcount <= 0
MalformedPersonRow == \E k \in 1..Len(AllVolunteerRows) : AllVolunteerRows[k].student_id = None
NonPositiveHeadcountRow == \E k \in 1..Len(group_info) : group_info[k].required_count <= 0

\* C15: Record-level errors never abort the run: with a person row that
\* lacks id or name, or a group row with a non-positive headcount, among the
\* inputs, the record is skipped and load_data does not fail.
C15_RecordErrorsNeverAbort == (MalformedPersonRow \/ NonPositiveHeadcountRow) => pc # "load_failed"

LightningStep == pc = "lightning" /\ pc' = "photography"
PhotographyStep == pc = "photography" /\ pc' = "internal_family"

Min2(a, b) == IF a <= b THEN a ELSE b

\* at the start of a pass: the groups lacking the role that have room, and
\* the unplaced people eligible for the role
NeedyGroups(role) == {g \in DOMAIN groups : Remaining(g) > 0 /\ ~(IF role = "lightning" THEN groups[g].has_lightning ELSE groups[g].has_photography)}
RoleScore(role, v) == IF role = "lightning" THEN volunteers[v].lightning_score ELSE volunteers[v].photography_score
UnplacedCandidates(role) == {v \in DOMAIN volunteers : v \notin placed_student_ids /\ volunteers[v].volunteer_type = "normal" /\ RoleScore(role, v) # None /\ RoleScore(role, v) > 0}

\* after the pass: the members of a group carrying the role, the groups
\* that received one in the pass
CarriersAfter(role, g) == {m \in Range(groups'[g].members) : role \in volunteers'[m].special_roles}
ReceivedSpecialist(role) == {g \in DOMAIN groups : CarriersAfter(role, g) # {} /\ \A m \in Range(groups[g].members) : role \notin volunteers[m].special_roles}

SpecialistQuota(role) ==
    /\ \A g \in DOMAIN groups : Cardinality(CarriersAfter(role, g)) <= 1
    /\ ReceivedSpecialist(role) \subseteq NeedyGroups(role)
    /\ Cardinality(ReceivedSpecialist(role)) = Min2(Cardinality(NeedyGroups(role)), Cardinality(UnplacedCandidates(role)))
    /\ Range(failed_assignments'[role]) = NeedyGroups(role) \ ReceivedSpecialist(role)
    /\ Len(failed_assignments'[role]) = Cardinality(NeedyGroups(role) \ ReceivedSpecialist(role))

\* C16: Specialist quota: after the pass for a role every group has at most
\* one member carrying the role, the number of groups that received a
\* specialist in the pass is the minimum of the number of groups lacking the
\* role with remaining capacity and the number of unplaced eligible
\* candidates at the start of the pass, and every other such group is
\* recorded as missing the role.
C16_SpecialistQuota == [][(LightningStep => SpecialistQuota("lightning")) /\ (PhotographyStep => SpecialistQuota("photography"))]_vars

\* after the lightning pass: one of two needy groups got the only candidate,
\* the other one is recorded as missing the role
C16_Witness ==
    /\ pc = "photography"
    /\ Len(failed_assignments.lightning) = 1
    /\ \E g \in DOMAIN groups : groups[g].has_lightning

\* execute_scheduling runs to its end once called: the phases are taken
\* one after the other without waiting for anything.
\* Every action of Next is its pc guard together with assignments, so it is
\* enabled exactly when its guard holds, and it changes pc: weak fairness of
\* the actions is weak fairness of the step that moves pc.
PcValues == {"load_volunteers", "load_groups", "load_bindings", "leaders", "binding_sets", "direct_individuals", "lightning", "photography", "internal_family", "final_fill", "done", "load_failed"}
Proceed == pc \notin {"done", "load_failed"} /\ pc' \in PcValues /\ pc' # pc
Fairness == WF_pc(Proceed)
FairSpec == Spec /\ Fairness

RunEnded == pc \in {"done", "load_failed"}
AllGroupsFull == \A g \in DOMAIN groups : Len(groups[g].members) = groups[g].required_count
NobodyUnplaced == DOMAIN volunteers \subseteq placed_student_ids

\* C17: Terminal state: execute_scheduling always terminates, and when it
\* finishes successfully either every group's member count equals its
\* required size or no unplaced person remains in the population.
C17_TerminalState == <>RunEnded /\ [](RunDone => (scheduling_result[1].success /\ (AllGroupsFull \/ NobodyUnplaced)))

\* a finished run that filled every group and left somebody unplaced
C17_Witness == RunDone /\ scheduling_result[1].success /\ AllGroupsFull /\ ~NobodyUnplaced

\* C18: Leader is a member: in every reachable state, each group whose
\* leader is set has that leader in its member list, and the leader's
\* assigned_group_id is that group.
C18_LeaderIsMember == \A g \in DOMAIN groups : groups[g].leader # None => (groups[g].leader \in Range(groups[g].members) /\ volunteers[groups[g].leader].assigned_group_id = g)

\* the steps of load_data and the phases of execute_scheduling, in order
PhaseOrder == <<"load_volunteers", "load_groups", "load_bindings", "leaders", "binding_sets", "direct_individuals", "lightning", "photography", "internal_family", "final_fill", "done">>
PhaseIndex(p) == CHOOSE i \in 1..Len(PhaseOrder) : PhaseOrder[i] = p

IsPrefix(s, t) == Len(s) <= Len(t) /\ SubSeq(t, 1, Len(s)) = s

PinnedEvents == {"pinned_assigned", "target_group_missing"}
FreeEvents == {"free_assigned", "no_suitable_group"}
PinnedBeforeFree(log) == \A i, j \in 1..Len(log) : (log[i].event \in FreeEvents /\ log[j].event \in PinnedEvents) => j < i

\* C19: No backtracking and fixed phase order: every step goes to the next
\* phase of the fixed order, so each phase runs exactly once; in the binding
\* phase all pinned sets are processed before any free set; a person added
\* to a group stays a member of it in every later state (the member lists
\* only grow at their end) and the placed set only grows.
C19_NoBacktracking ==
    [][ /\ (pc' = "load_failed" \/ PhaseIndex(pc') = PhaseIndex(pc) + 1)
        /\ \A g \in DOMAIN groups : g \in DOMAIN groups' /\ IsPrefix(groups[g].members, groups'[g].members)
        /\ placed_student_ids \subseteq placed_student_ids'
        /\ BindingStep => PinnedBeforeFree(scheduling_log') ]_vars

\* after the binding phase: a pinned set was placed, then a free one
C19_Witness ==
    /\ pc = "direct_individuals"
    /\ \E i, j \in 1..Len(scheduling_log) : i < j /\ scheduling_log[i].event = "pinned_assigned" /\ scheduling_log[j].event = "free_assigned"
    /\ placed_student_ids = {1, 2, 3}

InternalFamilyStep == pc = "internal_family" /\ pc' = "final_fill"
AddedInStep(g) == Range(groups'[g].members) \ Range(groups[g].members)

\* C20: BULK_FILL spreads people one per group per pass: the phase places
\* only unplaced internal and family people, and no group receives a second
\* person of the phase unless every other group that had remaining capacity
\* has received one.
C20_BulkFillOnePerGroupPerPass ==
    [][InternalFamilyStep =>
        /\ \A g \in DOMAIN groups : \A m \in AddedInStep(g) : m \notin placed_student_ids /\ volunteers[m].volunteer_type \in {"internal", "family"}
        /\ \A g, h \in DOMAIN groups : (Cardinality(AddedInStep(g)) >= 2 /\ h # g /\ Remaining(h) > 0) => AddedInStep(h) # {} ]_vars

\* the binding set a log line is about, its place in the binding table
BindingOf(id) == CHOOSE b \in Range(binding_sets) : b.binding_id = id
InputIndex(id) == CHOOSE k \in 1..Len(binding_sets) : binding_sets[k].binding_id = id

\* the log lines of the binding step and the people they count
StepLog == SubSeq(scheduling_log', Len(scheduling_log) + 1, Len(scheduling_log'))
FreeLines == {k \in 1..Len(StepLog) : StepLog[k].event \in FreeEvents}
RECURSIVE CountedFrom(_, _)
CountedFrom(g, k) == IF k > Len(StepLog) THEN 0 ELSE (IF StepLog[k].group_id = g /\ StepLog[k].event \in {"pinned_assigned", "free_assigned"} THEN StepLog[k].assigned_count ELSE 0) + CountedFrom(g, k + 1)

\* remaining capacity of group g when line k of the step was about to be
\* processed: what is left after the step plus what was added from k on
RemainingAt(g, k) == groups'[g].required_count - Len(groups'[g].members) + CountedFrom(g, k)
HoldersAt(n, k) == {g \in DOMAIN groups : RemainingAt(g, k) >= n}

FreeSetRule(k) ==
    LET b == BindingOf(StepLog[k].binding_id)
        n == Len(b.members)
        g == StepLog[k].group_id
        new == Range(b.members) \ placed_student_ids
    IN  IF StepLog[k].event = "no_suitable_group"
        THEN HoldersAt(n, k) = {} /\ new \cap placed_student_ids' = {}
        ELSE /\ g \in HoldersAt(n, k)
             /\ \A h \in HoldersAt(n, k) : RemainingAt(g, k) > RemainingAt(h, k) \/ (RemainingAt(g, k) = RemainingAt(h, k) /\ IndexOf(group_keys, g) <= IndexOf(group_keys, h))
             /\ new \subseteq Range(groups'[g].members) /\ new \subseteq placed_student_ids'
             /\ \A h \in DOMAIN groups \ {g} : new \cap AddedInStep(h) = {}
             /\ StepLog[k].assigned_count = Cardinality(new)

PinnedLines == {k \in 1..Len(StepLog) : StepLog[k].event = "pinned_assigned"}
AddedMembers(g) == SubSeq(groups'[g].members, Len(groups[g].members) + 1, Len(groups'[g].members))

PinnedSetRule(k) ==
    LET b == BindingOf(StepLog[k].binding_id)
        t == b.target_group_id
        new == FilterSeq(b.members, Range(b.members) \ placed_student_ids)
        fit == Min2(Len(new), RemainingAt(t, k))
    IN  /\ StepLog[k].group_id = t
        /\ StepLog[k].assigned_count = fit
        /\ FilterSeq(AddedMembers(t), Range(b.members)) = SubSeq(new, 1, fit)
        /\ \A i \in 1..Len(new) : (new[i] \in placed_student_ids') <=> (i <= fit)
        /\ \A h \in DOMAIN groups \ {t} : Range(b.members) \cap AddedInStep(h) = {}
        /\ \A m \in Range(b.members) \cap placed_student_ids : {h \in DOMAIN groups : m \in Range(groups'[h].members)} = GroupsHolding(m)

\* C22: PINNED_BINDINGS fills the target only up to capacity: for each set
\* pinned to an existing group, its not-yet-placed members are added to the
\* target in member order as long as the group has remaining capacity; the
\* members that do not fit stay unplaced in this phase, the members already
\* placed stay where they are, and no member of a pinned set is added to
\* another group during the phase.
C22_PinnedBindingsUpToCapacity ==
    [][BindingStep =>
        /\ {StepLog[k].binding_id : k \in PinnedLines} = {b.binding_id : b \in {x \in Range(binding_sets) : x.target_group_id \in DOMAIN groups}}
        /\ \A k \in PinnedLines : PinnedSetRule(k) ]_vars

\* after the binding phase: a pinned set of which only one member fitted
C22_Witness ==
    /\ pc = "direct_individuals"
    /\ \E k \in 1..Len(scheduling_log) :
          /\ scheduling_log[k].event = "pinned_assigned"
          /\ scheduling_log[k].assigned_count = 1
          /\ Range(BindingOf(scheduling_log[k].binding_id).members) \cap placed_student_ids = {1}

LeadersStep == pc = "leaders" /\ pc' = "binding_sets"

\* at the start of the phase: the groups lacking a leader in group order,
\* the not-yet-placed leader-flagged people in input order
LeaderlessGroups == FilterSeq(group_keys, {g \in DOMAIN groups : groups[g].leader = None})
UnplacedLeaders == FilterSeq(volunteer_keys, {v \in DOMAIN volunteers : "leader" \in volunteers[v].special_roles /\ v \notin placed_student_ids})

\* C23: LEADERS assigns in stable order: the k-th group lacking a leader at
\* the start of the phase receives the k-th not-yet-placed leader-flagged
\* person as leader and member; nobody becomes leader of more than one
\* group; a group is leaderless after the phase only if every unplaced
\* leader-flagged candidate has been used.
C23_LeadersStableOrder ==
    [][LeadersStep =>
        /\ \A k \in 1..Len(LeaderlessGroups) :
              IF k <= Len(UnplacedLeaders)
              THEN /\ groups'[LeaderlessGroups[k]].leader = UnplacedLeaders[k]
                   /\ UnplacedLeaders[k] \in Range(groups'[LeaderlessGroups[k]].members)
                   /\ UnplacedLeaders[k] \in placed_student_ids'
                   /\ \A h \in DOMAIN groups \ {LeaderlessGroups[k]} : groups'[h].leader # UnplacedLeaders[k]
              ELSE groups'[LeaderlessGroups[k]].leader = None
        /\ \A g \in DOMAIN groups : groups[g].leader # None => groups'[g].leader = groups[g].leader
        /\ (\E g \in DOMAIN groups : groups'[g].leader = None) => Range(UnplacedLeaders) \subseteq placed_student_ids' ]_vars

\* after the phase: both groups lacked a leader and got the leader-flagged
\* students 3 and 1, in the order of their rows
C23_Witness ==
    /\ pc = "binding_sets"
    /\ Len(group_info) = 2
    /\ \A k \in 1..Len(group_info) : group_info[k].leader_student_id = None
    /\ groups[1].leader = 3 /\ groups[2].leader = 1

\* the people who receive the role in the pass, the one a group received
NewSpecialists(role) == {v \in DOMAIN volunteers : role \in volunteers'[v].special_roles /\ role \notin volunteers[v].special_roles}
SpecialistOf(role, g) == CHOOSE m \in CarriersAfter(role, g) : TRUE

SpecialistsByScore(role) ==
    /\ NewSpecialists(role) \subseteq UnplacedCandidates(role)
    /\ \A g \in ReceivedSpecialist(role) : SpecialistOf(role, g) \in NewSpecialists(role)
    /\ \A g1, g2 \in ReceivedSpecialist(role) : IndexOf(group_keys, g1) < IndexOf(group_keys, g2) => RoleScore(role, SpecialistOf(role, g1)) >= RoleScore(role, SpecialistOf(role, g2))
    /\ \A c \in UnplacedCandidates(role) \ NewSpecialists(role) : \A s \in NewSpecialists(role) : RoleScore(role, c) <= RoleScore(role, s)

\* C24: Specialists are chosen by descending score among eligible people:
\* in each pass only unplaced normal people with a positive score for the
\* role receive it; of two groups that receive a specialist the earlier in
\* group order gets a score at least that of the later; and no unplaced
\* eligible candidate with a strictly higher score than an assigned
\* specialist is left without the role.
C24_SpecialistsByDescendingScore == [][(LightningStep => SpecialistsByScore("lightning")) /\ (PhotographyStep => SpecialistsByScore("photography"))]_vars

\* after the lightning pass: the candidate with the top score has the role
\* and a candidate with a lower score, earlier in the input, is left out
C24_Witness ==
    /\ pc = "photography"
    /\ \E v, u \in DOMAIN volunteers :
          /\ "lightning" \in volunteers[v].special_roles /\ volunteers[v].lightning_score = MaxScore
          /\ u \notin placed_student_ids /\ volunteers[u].volunteer_type = "normal" /\ volunteers[u].lightning_score = 1
          /\ IndexOf(volunteer_keys, u) < IndexOf(volunteer_keys, v)

-----------------------------------------------------------------------------
(* C25: the final fill *)

FinalFillStep == pc = "final_fill" /\ pc' = "done"

GeneralScore(v) == IF volunteers[v].normalized_score = None THEN 0 ELSE volunteers[v].normalized_score

UnplacedPeople == DOMAIN volunteers \ placed_student_ids

\* the open slots before the step: group by group in group order, one per
\* unit of remaining capacity
OpenSlots == Flatten([k \in 1..Len(group_keys) |-> Repeat(group_keys[k], Remaining(group_keys[k]))])

\* the people the step placed, in the order of the slots they took
FilledInOrder == Flatten([k \in 1..Len(group_keys) |-> AddedMembers(group_keys[k])])

-----------------------------------------------------------------------------
(* C26: the independent categories of the balancer *)

\* the categories with 0 < h <= (total headcount / target_groups) * threshold
SmallCategories == {i \in 1..Len(position_requirements) : position_requirements[i] > 0 /\ position_requirements[i] * target_groups * ThresholdDen <= SumSeq(position_requirements) * ThresholdNum}

\* the number of groups emitted for the other categories
GroupsOfOtherCategories == SumSeq([i \in 1..Len(split_result) |-> IF i \in SmallCategories THEN 0 ELSE Len(split_result[i])])

\* the small categories each have exactly their one group of their headcount
SmallCategoriesStandAlone == \A i \in SmallCategories : split_result[i] = <<position_requirements[i]>>

\* C26: every category with headcount h, 0 < h <= (total headcount /
\* target_groups) * threshold, is emitted as exactly one group of size h,
\* also when these categories outnumber target_groups; and when they do
\* not, the other categories receive target_groups minus the number of
\* such categories groups in all
C26_IndependentCategories ==
    (BalReturned /\ BalProperCall /\ SumSeq(position_requirements) > 0) =>
        /\ SmallCategoriesStandAlone
        /\ target_groups >= Cardinality(SmallCategories) =>
              GroupsOfOtherCategories = target_groups - Cardinality(SmallCategories)

\* the first part of C26 alone
C26_StandAloneOnly == (BalReturned /\ BalProperCall /\ SumSeq(position_requirements) > 0) => SmallCategoriesStandAlone

-----------------------------------------------------------------------------
(* C27: the even split *)

\* the sizes of s never increase and differ by at most 1
EvenSizes(s) == \A j, k \in 1..Len(s) : j < k => (s[j] >= s[k] /\ s[j] - s[k] <= 1)

\* C27: every category that the call divides into n >= 1 groups has sizes
\* that never increase and differ by at most 1: its first (headcount mod n)
\* groups have size floor(headcount / n) + 1, the others floor(headcount / n)
C27_EvenSplit ==
    BalReturned =>
        \A i \in 1..Len(split_result) :
            LET n == Len(split_result[i])
                h == position_requirements[i]
            IN  n >= 1 =>
                  /\ EvenSizes(split_result[i])
                  /\ \A k \in 1..n : split_result[i][k] = (h \div n) + (IF k <= h % n THEN 1 ELSE 0)

\* a call has divided a category into several groups of two different sizes
C27_Witness ==
    /\ BalReturned
    /\ \E i \in 1..Len(split_result) :
          /\ Len(split_result[i]) >= 2
          /\ position_requirements[i] % Len(split_result[i]) # 0
          /\ split_result[i][1] = split_result[i][Len(split_result[i])] + 1

-----------------------------------------------------------------------------
(* C28: the bookkeeping of placements *)

\* the places taken in all member lists
MemberSlots == UNION {{<<g, k>> : k \in 1..Len(groups[g].members)} : g \in DOMAIN groups}

\* C28: in every reachable state a student id is in placed_student_ids iff
\* the volunteer's assigned_group_id is set iff the volunteer is in the
\* member list of that group and of no other; so the member counts of all
\* groups sum to the size of the placed set, which is the assigned_count
\* that execute_scheduling reports
C28_PlacementBookkeeping ==
    /\ \A v \in DOMAIN volunteers :
          /\ v \in placed_student_ids <=> volunteers[v].assigned_group_id # None
          /\ GroupsHolding(v) = IF volunteers[v].assigned_group_id = None THEN {} ELSE {volunteers[v].assigned_group_id}
    /\ Cardinality(MemberSlots) = Cardinality(placed_student_ids)
    /\ pc = "done" => scheduling_result[1].assigned_count = Cardinality(placed_student_ids)

-----------------------------------------------------------------------------
(* C29: no empty groups from the balancer *)

\* a list of positive headcounts and a target between 1 and their sum
PositiveCall ==
    /\ position_requirements # <<>>
    /\ \A i \in 1..Len(position_requirements) : position_requirements[i] >= 1
    /\ target_groups > 0 /\ target_groups <= SumSeq(position_requirements)

\* C29: for positive headcounts and 0 < target_groups <= total headcount
\* every emitted group size is at least 1: no category is allotted more
\* groups than its headcount
C29_NoEmptyGroups ==
    (BalReturned /\ PositiveCall) =>
        \A i \in 1..Len(split_result) :
            /\ Len(split_result[i]) <= position_requirements[i]
            /\ \A k \in 1..Len(split_result[i]) : split_result[i][k] >= 1

\* a call with positive headcounts has divided a category of two or more
\* people into as many groups as it has people, beside another category
C29_Witness ==
    /\ BalReturned /\ PositiveCall
    /\ \E i, j \in 1..Len(split_result) :
          /\ i # j
          /\ position_requirements[i] >= 2
          /\ Len(split_result[i]) = position_requirements[i]
          /\ Len(split_result[j]) >= 1

-----------------------------------------------------------------------------
(* C30: specialist roles and group flags *)

GroupFlag(role, g) == IF role = "lightning" THEN groups[g].has_lightning ELSE groups[g].has_photography

Carries(v, role) == role \in volunteers[v].special_roles

\* C30: in every reachable state every volunteer carrying the lightning
\* (photography) role is a member of a group, and every group holding the
\* volunteer has its has_lightning (has_photography) flag set; a group's
\* flag is set only if one of its members carries the role; and no
\* volunteer carries both specialist roles
C30_SpecialistsMatchFlags ==
    /\ \A role \in {"lightning", "photography"} :
          /\ \A v \in DOMAIN volunteers :
                Carries(v, role) => (GroupsHolding(v) # {} /\ \A g \in GroupsHolding(v) : GroupFlag(role, g))
          /\ \A g \in DOMAIN groups :
                GroupFlag(role, g) => \E m \in MembersOf(g) : Carries(m, role)
    /\ \A v \in DOMAIN volunteers : ~(Carries(v, "lightning") /\ Carries(v, "photography"))

\* at the end of a run a group has both flags set, with one member carrying
\* the lightning role and another the photography role
C30_Witness ==
    /\ pc = "done"
    /\ \E g \in DOMAIN groups :
          /\ groups[g].has_lightning /\ groups[g].has_photography
          /\ \E m, n \in MembersOf(g) : m # n /\ Carries(m, "lightning") /\ Carries(n, "photography")
=============================================================================
